---- MODULE Spec2Model ----
(***************************************************************************)
(* A model of sreb_scraper.py: the pipeline                                *)
(*   fetch_with_requests -> parse_entries -> [fetch_with_playwright ->     *)
(*   parse_entries] -> deduplicate -> append_to_sheet                      *)
(* run once by main().  Python strings are modelled as sequences of        *)
(* Unicode code points, so that strip, replace, lower, splitlines, the     *)
(* substring test and the phone regular expression are computed character  *)
(* by character as the interpreter computes them.                          *)
(***************************************************************************)
EXTENDS Integers, Sequences, FiniteSets, TLC

VARIABLES
    pc,          \* position of main(): the statement about to run
    creds,       \* the process environment: GOOGLE_CREDS_JSON and its file
    resp,        \* the response of requests.get: [status, text]
    html,        \* main's local html (the parsed document tree)
    entries,     \* main's local entries
    rows,        \* main's local rows
    calls,       \* the functions main has called, in order
    browser,     \* the Chromium session: "none", "open" or "closed" (released)
    playwright,  \* the sync_playwright() scope: "none" or "stopped"
    sheetCalls,  \* the credential and gspread calls issued, in order
    appended,    \* the batches handed to sheet.append_rows, in order
    log,         \* the messages written by logging.info, in order
    err          \* the exception that ended the run, or "none"

vars ==
    <<pc, creds, resp, html, entries, rows, calls, browser, playwright,
      sheetCalls, appended, log, err>>

-----------------------------------------------------------------------------
(* Bounds of the model. *)

\* longest list of text nodes of a container drawn for parse_entries
MaxNodes ==
    3

\* longest list of rows drawn for deduplicate and append_to_sheet
MaxRows ==
    3

-----------------------------------------------------------------------------
(* Python str operations.  A str is the sequence of its Unicode code     *)
(* points; the character classes and the case table below are those of     *)
(* the str type and the re module of CPython 3.11 (Unicode 14).            *)

EMPTY ==
    <<>>

\* str.isspace(): the characters str.strip() removes and \s matches
WHITESPACE ==
    (9..13)
        \cup (28..32)
        \cup (8192..8202) \cup (8232..8233) \cup {133, 160, 5760, 8239, 8287, 12288}

\* the line boundaries of str.splitlines(); \r\n counts as one
LINE_BREAKS ==
    (10..13) \cup (28..30) \cup (8232..8233) \cup {133}

\* the zero of every block of ten decimal digits (category Nd)
DIGIT_ZEROS ==
    {48, 1632, 1776, 1984, 2406, 2534, 2662, 2790, 2918, 3046, 3174, 3302,
     3430, 3558, 3664, 3792, 3872, 4160, 4240, 6112, 6160, 6470, 6608, 6784,
     6800, 6992, 7088, 7232, 7248, 42528, 43216, 43264, 43472, 43504, 43600,
     44016, 65296, 66720, 68912, 69734, 69872, 69942, 70096, 70384, 70736,
     70864, 71248, 71360, 71472, 71904, 72016, 72784, 73040, 73120, 92768,
     92864, 93008, 120782, 120792, 120802, 120812, 120822, 123200, 123632,
     125264, 130032}

\* characters matched by \d in a str pattern
DIGITS ==
    UNION {z..(z + 9) : z \in DIGIT_ZEROS}

\* characters matched by [-.\s]
PHONE_SEP ==
    {45, 46} \cup WHITESPACE

\* <<first, last, step, delta>>: every step-th code point c of first..last
\* has the one-character lowercase c + delta
LOWER_RANGES ==
    {<<65, 90, 1, 32>>, <<192, 214, 1, 32>>, <<216, 222, 1, 32>>,
     <<256, 302, 2, 1>>, <<306, 310, 2, 1>>, <<313, 327, 2, 1>>,
     <<330, 374, 2, 1>>, <<376, 376, 1, -121>>, <<377, 381, 2, 1>>,
     <<385, 385, 1, 210>>, <<386, 388, 2, 1>>, <<390, 390, 1, 206>>,
     <<391, 391, 1, 1>>, <<393, 394, 1, 205>>, <<395, 395, 1, 1>>,
     <<398, 398, 1, 79>>, <<399, 399, 1, 202>>, <<400, 400, 1, 203>>,
     <<401, 401, 1, 1>>, <<403, 403, 1, 205>>, <<404, 404, 1, 207>>,
     <<406, 406, 1, 211>>, <<407, 407, 1, 209>>, <<408, 408, 1, 1>>,
     <<412, 412, 1, 211>>, <<413, 413, 1, 213>>, <<415, 415, 1, 214>>,
     <<416, 420, 2, 1>>, <<422, 422, 1, 218>>, <<423, 423, 1, 1>>,
     <<425, 425, 1, 218>>, <<428, 428, 1, 1>>, <<430, 430, 1, 218>>,
     <<431, 431, 1, 1>>, <<433, 434, 1, 217>>, <<435, 437, 2, 1>>,
     <<439, 439, 1, 219>>, <<440, 440, 1, 1>>, <<444, 444, 1, 1>>,
     <<452, 452, 1, 2>>, <<453, 453, 1, 1>>, <<455, 455, 1, 2>>,
     <<456, 456, 1, 1>>, <<458, 458, 1, 2>>, <<459, 475, 2, 1>>,
     <<478, 494, 2, 1>>, <<497, 497, 1, 2>>, <<498, 500, 2, 1>>,
     <<502, 502, 1, -97>>, <<503, 503, 1, -56>>, <<504, 542, 2, 1>>,
     <<544, 544, 1, -130>>, <<546, 562, 2, 1>>, <<570, 570, 1, 10795>>,
     <<571, 571, 1, 1>>, <<573, 573, 1, -163>>, <<574, 574, 1, 10792>>,
     <<577, 577, 1, 1>>, <<579, 579, 1, -195>>, <<580, 580, 1, 69>>,
     <<581, 581, 1, 71>>, <<582, 590, 2, 1>>, <<880, 882, 2, 1>>,
     <<886, 886, 1, 1>>, <<895, 895, 1, 116>>, <<902, 902, 1, 38>>,
     <<904, 906, 1, 37>>, <<908, 908, 1, 64>>, <<910, 911, 1, 63>>,
     <<913, 929, 1, 32>>, <<931, 939, 1, 32>>, <<975, 975, 1, 8>>,
     <<984, 1006, 2, 1>>, <<1012, 1012, 1, -60>>, <<1015, 1015, 1, 1>>,
     <<1017, 1017, 1, -7>>, <<1018, 1018, 1, 1>>, <<1021, 1023, 1, -130>>,
     <<1024, 1039, 1, 80>>, <<1040, 1071, 1, 32>>, <<1120, 1152, 2, 1>>,
     <<1162, 1214, 2, 1>>, <<1216, 1216, 1, 15>>, <<1217, 1229, 2, 1>>,
     <<1232, 1326, 2, 1>>, <<1329, 1366, 1, 48>>, <<4256, 4293, 1, 7264>>,
     <<4295, 4295, 1, 7264>>, <<4301, 4301, 1, 7264>>,
     <<5024, 5103, 1, 38864>>, <<5104, 5109, 1, 8>>, <<7312, 7354, 1, -3008>>,
     <<7357, 7359, 1, -3008>>, <<7680, 7828, 2, 1>>, <<7838, 7838, 1, -7615>>,
     <<7840, 7934, 2, 1>>, <<7944, 7951, 1, -8>>, <<7960, 7965, 1, -8>>,
     <<7976, 7983, 1, -8>>, <<7992, 7999, 1, -8>>, <<8008, 8013, 1, -8>>,
     <<8025, 8031, 2, -8>>, <<8040, 8047, 1, -8>>, <<8072, 8079, 1, -8>>,
     <<8088, 8095, 1, -8>>, <<8104, 8111, 1, -8>>, <<8120, 8121, 1, -8>>,
     <<8122, 8123, 1, -74>>, <<8124, 8124, 1, -9>>, <<8136, 8139, 1, -86>>,
     <<8140, 8140, 1, -9>>, <<8152, 8153, 1, -8>>, <<8154, 8155, 1, -100>>,
     <<8168, 8169, 1, -8>>, <<8170, 8171, 1, -112>>, <<8172, 8172, 1, -7>>,
     <<8184, 8185, 1, -128>>, <<8186, 8187, 1, -126>>, <<8188, 8188, 1, -9>>,
     <<8486, 8486, 1, -7517>>, <<8490, 8490, 1, -8383>>,
     <<8491, 8491, 1, -8262>>, <<8498, 8498, 1, 28>>, <<8544, 8559, 1, 16>>,
     <<8579, 8579, 1, 1>>, <<9398, 9423, 1, 26>>, <<11264, 11311, 1, 48>>,
     <<11360, 11360, 1, 1>>, <<11362, 11362, 1, -10743>>,
     <<11363, 11363, 1, -3814>>, <<11364, 11364, 1, -10727>>,
     <<11367, 11371, 2, 1>>, <<11373, 11373, 1, -10780>>,
     <<11374, 11374, 1, -10749>>, <<11375, 11375, 1, -10783>>,
     <<11376, 11376, 1, -10782>>, <<11378, 11378, 1, 1>>,
     <<11381, 11381, 1, 1>>, <<11390, 11391, 1, -10815>>,
     <<11392, 11490, 2, 1>>, <<11499, 11501, 2, 1>>, <<11506, 11506, 1, 1>>,
     <<42560, 42604, 2, 1>>, <<42624, 42650, 2, 1>>, <<42786, 42798, 2, 1>>,
     <<42802, 42862, 2, 1>>, <<42873, 42875, 2, 1>>,
     <<42877, 42877, 1, -35332>>, <<42878, 42886, 2, 1>>,
     <<42891, 42891, 1, 1>>, <<42893, 42893, 1, -42280>>,
     <<42896, 42898, 2, 1>>, <<42902, 42920, 2, 1>>,
     <<42922, 42922, 1, -42308>>, <<42923, 42923, 1, -42319>>,
     <<42924, 42924, 1, -42315>>, <<42925, 42925, 1, -42305>>,
     <<42926, 42926, 1, -42308>>, <<42928, 42928, 1, -42258>>,
     <<42929, 42929, 1, -42282>>, <<42930, 42930, 1, -42261>>,
     <<42931, 42931, 1, 928>>, <<42932, 42946, 2, 1>>,
     <<42948, 42948, 1, -48>>, <<42949, 42949, 1, -42307>>,
     <<42950, 42950, 1, -35384>>, <<42951, 42953, 2, 1>>,
     <<42960, 42960, 1, 1>>, <<42966, 42968, 2, 1>>, <<42997, 42997, 1, 1>>,
     <<65313, 65338, 1, 32>>, <<66560, 66599, 1, 40>>, <<66736, 66771, 1, 40>>,
     <<66928, 66964, 2, 39>>, <<66929, 66937, 2, 39>>, <<66941, 66953, 2, 39>>,
     <<66957, 66961, 2, 39>>, <<66965, 66965, 1, 39>>, <<68736, 68786, 1, 64>>,
     <<71840, 71871, 1, 32>>, <<93760, 93791, 1, 32>>,
     <<125184, 125217, 1, 34>>}

\* <<first, last>>: the cased characters that are not case-ignorable
CASED_RANGES ==
    {<<65, 90>>, <<97, 122>>, <<170, 170>>, <<181, 181>>, <<186, 186>>,
     <<192, 214>>, <<216, 246>>, <<248, 442>>, <<444, 447>>, <<452, 659>>,
     <<661, 687>>, <<880, 883>>, <<886, 887>>, <<891, 893>>, <<895, 895>>,
     <<902, 902>>, <<904, 906>>, <<908, 908>>, <<910, 929>>, <<931, 1013>>,
     <<1015, 1153>>, <<1162, 1327>>, <<1329, 1366>>, <<1376, 1416>>,
     <<4256, 4293>>, <<4295, 4295>>, <<4301, 4301>>, <<4304, 4346>>,
     <<4349, 4351>>, <<5024, 5109>>, <<5112, 5117>>, <<7296, 7304>>,
     <<7312, 7354>>, <<7357, 7359>>, <<7424, 7467>>, <<7531, 7543>>,
     <<7545, 7578>>, <<7680, 7957>>, <<7960, 7965>>, <<7968, 8005>>,
     <<8008, 8013>>, <<8016, 8023>>, <<8025, 8025>>, <<8027, 8027>>,
     <<8029, 8029>>, <<8031, 8061>>, <<8064, 8116>>, <<8118, 8124>>,
     <<8126, 8126>>, <<8130, 8132>>, <<8134, 8140>>, <<8144, 8147>>,
     <<8150, 8155>>, <<8160, 8172>>, <<8178, 8180>>, <<8182, 8188>>,
     <<8450, 8450>>, <<8455, 8455>>, <<8458, 8467>>, <<8469, 8469>>,
     <<8473, 8477>>, <<8484, 8484>>, <<8486, 8486>>, <<8488, 8488>>,
     <<8490, 8493>>, <<8495, 8500>>, <<8505, 8505>>, <<8508, 8511>>,
     <<8517, 8521>>, <<8526, 8526>>, <<8544, 8575>>, <<8579, 8580>>,
     <<9398, 9449>>, <<11264, 11387>>, <<11390, 11492>>, <<11499, 11502>>,
     <<11506, 11507>>, <<11520, 11557>>, <<11559, 11559>>, <<11565, 11565>>,
     <<42560, 42605>>, <<42624, 42651>>, <<42786, 42863>>, <<42865, 42887>>,
     <<42891, 42894>>, <<42896, 42954>>, <<42960, 42961>>, <<42963, 42963>>,
     <<42965, 42969>>, <<42997, 42998>>, <<43002, 43002>>, <<43824, 43866>>,
     <<43872, 43880>>, <<43888, 43967>>, <<64256, 64262>>, <<64275, 64279>>,
     <<65313, 65338>>, <<65345, 65370>>, <<66560, 66639>>, <<66736, 66771>>,
     <<66776, 66811>>, <<66928, 66938>>, <<66940, 66954>>, <<66956, 66962>>,
     <<66964, 66965>>, <<66967, 66977>>, <<66979, 66993>>, <<66995, 67001>>,
     <<67003, 67004>>, <<68736, 68786>>, <<68800, 68850>>, <<71840, 71903>>,
     <<93760, 93823>>, <<119808, 119892>>, <<119894, 119964>>,
     <<119966, 119967>>, <<119970, 119970>>, <<119973, 119974>>,
     <<119977, 119980>>, <<119982, 119993>>, <<119995, 119995>>,
     <<119997, 120003>>, <<120005, 120069>>, <<120071, 120074>>,
     <<120077, 120084>>, <<120086, 120092>>, <<120094, 120121>>,
     <<120123, 120126>>, <<120128, 120132>>, <<120134, 120134>>,
     <<120138, 120144>>, <<120146, 120485>>, <<120488, 120512>>,
     <<120514, 120538>>, <<120540, 120570>>, <<120572, 120596>>,
     <<120598, 120628>>, <<120630, 120654>>, <<120656, 120686>>,
     <<120688, 120712>>, <<120714, 120744>>, <<120746, 120770>>,
     <<120772, 120779>>, <<122624, 122633>>, <<122635, 122654>>,
     <<125184, 125251>>, <<127280, 127305>>, <<127312, 127337>>,
     <<127344, 127369>>}

\* <<first, last>>: the case-ignorable characters
CASE_IGNORABLE_RANGES ==
    {<<39, 39>>, <<46, 46>>, <<58, 58>>, <<94, 94>>, <<96, 96>>, <<168, 168>>,
     <<173, 173>>, <<175, 175>>, <<180, 180>>, <<183, 184>>, <<688, 879>>,
     <<884, 885>>, <<890, 890>>, <<900, 901>>, <<903, 903>>, <<1155, 1161>>,
     <<1369, 1369>>, <<1375, 1375>>, <<1425, 1469>>, <<1471, 1471>>,
     <<1473, 1474>>, <<1476, 1477>>, <<1479, 1479>>, <<1524, 1524>>,
     <<1536, 1541>>, <<1552, 1562>>, <<1564, 1564>>, <<1600, 1600>>,
     <<1611, 1631>>, <<1648, 1648>>, <<1750, 1757>>, <<1759, 1768>>,
     <<1770, 1773>>, <<1807, 1807>>, <<1809, 1809>>, <<1840, 1866>>,
     <<1958, 1968>>, <<2027, 2037>>, <<2042, 2042>>, <<2045, 2045>>,
     <<2070, 2093>>, <<2137, 2139>>, <<2184, 2184>>, <<2192, 2193>>,
     <<2200, 2207>>, <<2249, 2306>>, <<2362, 2362>>, <<2364, 2364>>,
     <<2369, 2376>>, <<2381, 2381>>, <<2385, 2391>>, <<2402, 2403>>,
     <<2417, 2417>>, <<2433, 2433>>, <<2492, 2492>>, <<2497, 2500>>,
     <<2509, 2509>>, <<2530, 2531>>, <<2558, 2558>>, <<2561, 2562>>,
     <<2620, 2620>>, <<2625, 2626>>, <<2631, 2632>>, <<2635, 2637>>,
     <<2641, 2641>>, <<2672, 2673>>, <<2677, 2677>>, <<2689, 2690>>,
     <<2748, 2748>>, <<2753, 2757>>, <<2759, 2760>>, <<2765, 2765>>,
     <<2786, 2787>>, <<2810, 2815>>, <<2817, 2817>>, <<2876, 2876>>,
     <<2879, 2879>>, <<2881, 2884>>, <<2893, 2893>>, <<2901, 2902>>,
     <<2914, 2915>>, <<2946, 2946>>, <<3008, 3008>>, <<3021, 3021>>,
     <<3072, 3072>>, <<3076, 3076>>, <<3132, 3132>>, <<3134, 3136>>,
     <<3142, 3144>>, <<3146, 3149>>, <<3157, 3158>>, <<3170, 3171>>,
     <<3201, 3201>>, <<3260, 3260>>, <<3263, 3263>>, <<3270, 3270>>,
     <<3276, 3277>>, <<3298, 3299>>, <<3328, 3329>>, <<3387, 3388>>,
     <<3393, 3396>>, <<3405, 3405>>, <<3426, 3427>>, <<3457, 3457>>,
     <<3530, 3530>>, <<3538, 3540>>, <<3542, 3542>>, <<3633, 3633>>,
     <<3636, 3642>>, <<3654, 3662>>, <<3761, 3761>>, <<3764, 3772>>,
     <<3782, 3782>>, <<3784, 3789>>, <<3864, 3865>>, <<3893, 3893>>,
     <<3895, 3895>>, <<3897, 3897>>, <<3953, 3966>>, <<3968, 3972>>,
     <<3974, 3975>>, <<3981, 3991>>, <<3993, 4028>>, <<4038, 4038>>,
     <<4141, 4144>>, <<4146, 4151>>, <<4153, 4154>>, <<4157, 4158>>,
     <<4184, 4185>>, <<4190, 4192>>, <<4209, 4212>>, <<4226, 4226>>,
     <<4229, 4230>>, <<4237, 4237>>, <<4253, 4253>>, <<4348, 4348>>,
     <<4957, 4959>>, <<5906, 5908>>, <<5938, 5939>>, <<5970, 5971>>,
     <<6002, 6003>>, <<6068, 6069>>, <<6071, 6077>>, <<6086, 6086>>,
     <<6089, 6099>>, <<6103, 6103>>, <<6109, 6109>>, <<6155, 6159>>,
     <<6211, 6211>>, <<6277, 6278>>, <<6313, 6313>>, <<6432, 6434>>,
     <<6439, 6440>>, <<6450, 6450>>, <<6457, 6459>>, <<6679, 6680>>,
     <<6683, 6683>>, <<6742, 6742>>, <<6744, 6750>>, <<6752, 6752>>,
     <<6754, 6754>>, <<6757, 6764>>, <<6771, 6780>>, <<6783, 6783>>,
     <<6823, 6823>>, <<6832, 6862>>, <<6912, 6915>>, <<6964, 6964>>,
     <<6966, 6970>>, <<6972, 6972>>, <<6978, 6978>>, <<7019, 7027>>,
     <<7040, 7041>>, <<7074, 7077>>, <<7080, 7081>>, <<7083, 7085>>,
     <<7142, 7142>>, <<7144, 7145>>, <<7149, 7149>>, <<7151, 7153>>,
     <<7212, 7219>>, <<7222, 7223>>, <<7288, 7293>>, <<7376, 7378>>,
     <<7380, 7392>>, <<7394, 7400>>, <<7405, 7405>>, <<7412, 7412>>,
     <<7416, 7417>>, <<7468, 7530>>, <<7544, 7544>>, <<7579, 7679>>,
     <<8125, 8125>>, <<8127, 8129>>, <<8141, 8143>>, <<8157, 8159>>,
     <<8173, 8175>>, <<8189, 8190>>, <<8203, 8207>>, <<8216, 8217>>,
     <<8228, 8228>>, <<8231, 8231>>, <<8234, 8238>>, <<8288, 8292>>,
     <<8294, 8303>>, <<8305, 8305>>, <<8319, 8319>>, <<8336, 8348>>,
     <<8400, 8432>>, <<11388, 11389>>, <<11503, 11505>>, <<11631, 11631>>,
     <<11647, 11647>>, <<11744, 11775>>, <<11823, 11823>>, <<12293, 12293>>,
     <<12330, 12333>>, <<12337, 12341>>, <<12347, 12347>>, <<12441, 12446>>,
     <<12540, 12542>>, <<40981, 40981>>, <<42232, 42237>>, <<42508, 42508>>,
     <<42607, 42610>>, <<42612, 42621>>, <<42623, 42623>>, <<42652, 42655>>,
     <<42736, 42737>>, <<42752, 42785>>, <<42864, 42864>>, <<42888, 42890>>,
     <<42994, 42996>>, <<43000, 43001>>, <<43010, 43010>>, <<43014, 43014>>,
     <<43019, 43019>>, <<43045, 43046>>, <<43052, 43052>>, <<43204, 43205>>,
     <<43232, 43249>>, <<43263, 43263>>, <<43302, 43309>>, <<43335, 43345>>,
     <<43392, 43394>>, <<43443, 43443>>, <<43446, 43449>>, <<43452, 43453>>,
     <<43471, 43471>>, <<43493, 43494>>, <<43561, 43566>>, <<43569, 43570>>,
     <<43573, 43574>>, <<43587, 43587>>, <<43596, 43596>>, <<43632, 43632>>,
     <<43644, 43644>>, <<43696, 43696>>, <<43698, 43700>>, <<43703, 43704>>,
     <<43710, 43711>>, <<43713, 43713>>, <<43741, 43741>>, <<43756, 43757>>,
     <<43763, 43764>>, <<43766, 43766>>, <<43867, 43871>>, <<43881, 43883>>,
     <<44005, 44005>>, <<44008, 44008>>, <<44013, 44013>>, <<64286, 64286>>,
     <<64434, 64450>>, <<65024, 65039>>, <<65043, 65043>>, <<65056, 65071>>,
     <<65106, 65106>>, <<65109, 65109>>, <<65279, 65279>>, <<65287, 65287>>,
     <<65294, 65294>>, <<65306, 65306>>, <<65342, 65342>>, <<65344, 65344>>,
     <<65392, 65392>>, <<65438, 65439>>, <<65507, 65507>>, <<65529, 65531>>,
     <<66045, 66045>>, <<66272, 66272>>, <<66422, 66426>>, <<67456, 67461>>,
     <<67463, 67504>>, <<67506, 67514>>, <<68097, 68099>>, <<68101, 68102>>,
     <<68108, 68111>>, <<68152, 68154>>, <<68159, 68159>>, <<68325, 68326>>,
     <<68900, 68903>>, <<69291, 69292>>, <<69446, 69456>>, <<69506, 69509>>,
     <<69633, 69633>>, <<69688, 69702>>, <<69744, 69744>>, <<69747, 69748>>,
     <<69759, 69761>>, <<69811, 69814>>, <<69817, 69818>>, <<69821, 69821>>,
     <<69826, 69826>>, <<69837, 69837>>, <<69888, 69890>>, <<69927, 69931>>,
     <<69933, 69940>>, <<70003, 70003>>, <<70016, 70017>>, <<70070, 70078>>,
     <<70089, 70092>>, <<70095, 70095>>, <<70191, 70193>>, <<70196, 70196>>,
     <<70198, 70199>>, <<70206, 70206>>, <<70367, 70367>>, <<70371, 70378>>,
     <<70400, 70401>>, <<70459, 70460>>, <<70464, 70464>>, <<70502, 70508>>,
     <<70512, 70516>>, <<70712, 70719>>, <<70722, 70724>>, <<70726, 70726>>,
     <<70750, 70750>>, <<70835, 70840>>, <<70842, 70842>>, <<70847, 70848>>,
     <<70850, 70851>>, <<71090, 71093>>, <<71100, 71101>>, <<71103, 71104>>,
     <<71132, 71133>>, <<71219, 71226>>, <<71229, 71229>>, <<71231, 71232>>,
     <<71339, 71339>>, <<71341, 71341>>, <<71344, 71349>>, <<71351, 71351>>,
     <<71453, 71455>>, <<71458, 71461>>, <<71463, 71467>>, <<71727, 71735>>,
     <<71737, 71738>>, <<71995, 71996>>, <<71998, 71998>>, <<72003, 72003>>,
     <<72148, 72151>>, <<72154, 72155>>, <<72160, 72160>>, <<72193, 72202>>,
     <<72243, 72248>>, <<72251, 72254>>, <<72263, 72263>>, <<72273, 72278>>,
     <<72281, 72283>>, <<72330, 72342>>, <<72344, 72345>>, <<72752, 72758>>,
     <<72760, 72765>>, <<72767, 72767>>, <<72850, 72871>>, <<72874, 72880>>,
     <<72882, 72883>>, <<72885, 72886>>, <<73009, 73014>>, <<73018, 73018>>,
     <<73020, 73021>>, <<73023, 73029>>, <<73031, 73031>>, <<73104, 73105>>,
     <<73109, 73109>>, <<73111, 73111>>, <<73459, 73460>>, <<78896, 78904>>,
     <<92912, 92916>>, <<92976, 92982>>, <<92992, 92995>>, <<94031, 94031>>,
     <<94095, 94111>>, <<94176, 94177>>, <<94179, 94180>>, <<110576, 110579>>,
     <<110581, 110587>>, <<110589, 110590>>, <<113821, 113822>>,
     <<113824, 113827>>, <<118528, 118573>>, <<118576, 118598>>,
     <<119143, 119145>>, <<119155, 119170>>, <<119173, 119179>>,
     <<119210, 119213>>, <<119362, 119364>>, <<121344, 121398>>,
     <<121403, 121452>>, <<121461, 121461>>, <<121476, 121476>>,
     <<121499, 121503>>, <<121505, 121519>>, <<122880, 122886>>,
     <<122888, 122904>>, <<122907, 122913>>, <<122915, 122916>>,
     <<122918, 122922>>, <<123184, 123197>>, <<123566, 123566>>,
     <<123628, 123631>>, <<125136, 125142>>, <<125252, 125259>>,
     <<127995, 127999>>, <<917505, 917505>>, <<917536, 917631>>,
     <<917760, 917999>>}

InRanges(c, ranges) ==
    \E r \in ranges : r[1] <= c /\ c <= r[2]

Min(S) ==
    CHOOSE x \in S : \A y \in S : x <= y

Max(S) ==
    CHOOSE x \in S : \A y \in S : x >= y

\* s[from:] for a 1-based position
Drop(s, from) ==
    SubSeq(s, from, Len(s))

RECURSIVE LStrip(_)
LStrip(s) ==
    IF s # EMPTY /\ Head(s) \in WHITESPACE THEN LStrip(Tail(s)) ELSE s

RECURSIVE RStrip(_)
RStrip(s) ==
    IF s # EMPTY /\ s[Len(s)] \in WHITESPACE
    THEN RStrip(SubSeq(s, 1, Len(s) - 1))
    ELSE s

\* str.strip()
Strip(s) ==
    RStrip(LStrip(s))

\* str.startswith(p), the test behind the selector a[href^="..."]
StartsWith(s, p) ==
    Len(p) <= Len(s) /\ SubSeq(s, 1, Len(p)) = p

\* Python's `sub in t`; the empty string is in every string
Contains(t, sub) ==
    \E i \in 1..(Len(t) - Len(sub) + 1) : SubSeq(t, i, i + Len(sub) - 1) = sub

\* str.replace(old, new) for a non-empty old: every occurrence, left to right
RECURSIVE Replace(_, _, _)
Replace(s, old, new) ==
    IF s = EMPTY THEN EMPTY
    ELSE IF StartsWith(s, old)
         THEN new \o Replace(Drop(s, Len(old) + 1), old, new)
         ELSE <<Head(s)>> \o Replace(Tail(s), old, new)

\* the lowercase of one character out of context: U+0130 lowers to two
\* characters, every other character to one
LowerChar(c) ==
    IF c = 304 THEN <<105, 775>>
    ELSE LET hit == {r \in LOWER_RANGES :
                        r[1] <= c /\ c <= r[2] /\ (c - r[1]) % r[3] = 0}
         IN  IF hit = {} THEN <<c>> ELSE <<c + (CHOOSE r \in hit : TRUE)[4]>>

\* whether the capital sigma s[i] is in final position: the nearest
\* character before it that is not case-ignorable is cased, and the
\* nearest one after it, if any, is not
FinalSigma(s, i) ==
    LET before == {j \in 1..(i - 1) : ~InRanges(s[j], CASE_IGNORABLE_RANGES)}
        after  == {j \in (i + 1)..Len(s) : ~InRanges(s[j], CASE_IGNORABLE_RANGES)}
    IN  /\ before # {}
        /\ InRanges(s[Max(before)], CASED_RANGES)
        /\ after = {} \/ ~InRanges(s[Min(after)], CASED_RANGES)

RECURSIVE LowerFrom(_, _)
LowerFrom(s, i) ==
    IF i > Len(s) THEN EMPTY
    ELSE (IF s[i] = 931 /\ FinalSigma(s, i) THEN <<962>> ELSE LowerChar(s[i]))
         \o LowerFrom(s, i + 1)

\* str.lower()
Lower(s) ==
    LowerFrom(s, 1)

\* str.splitlines(): no empty last line
RECURSIVE SplitLines(_)
SplitLines(s) ==
    IF s = EMPTY THEN <<>>
    ELSE LET brk == {i \in 1..Len(s) : s[i] \in LINE_BREAKS}
         IN  IF brk = {} THEN <<s>>
             ELSE LET i == Min(brk)
                      w == IF s[i] = 13 /\ i < Len(s) /\ s[i + 1] = 10
                           THEN 2 ELSE 1
                  IN  <<SubSeq(s, 1, i - 1)>> \o SplitLines(Drop(s, i + w))

\* sep.join(parts)
RECURSIVE Join(_, _)
Join(parts, sep) ==
    IF parts = <<>> THEN EMPTY
    ELSE IF Len(parts) = 1 THEN parts[1]
    ELSE parts[1] \o sep \o Join(Tail(parts), sep)

-----------------------------------------------------------------------------
(* The phone pattern (\(?\d{3}\)?[-.\s]?\d{3}[-.\s]?\d{4}) of line 58.      *)
(* Every optional element is a single character that is no digit, so the   *)
(* greedy choice is the only one that can lead to a match.                 *)

\* position after an optional character of `set` at position i
OptChar(t, i, set) ==
    IF i >= 1 /\ i <= Len(t) /\ t[i] \in set THEN i + 1 ELSE i

\* position after n digits starting at i; 0 when they are not there
DigitRun(t, i, n) ==
    IF i >= 1 /\ i + n - 1 <= Len(t) /\ \A k \in i..(i + n - 1) : t[k] \in DIGITS
    THEN i + n
    ELSE 0

\* position after a match of the pattern starting at i; 0 when none starts there
MatchPhoneAt(t, i) ==
    LET a == DigitRun(t, OptChar(t, i, {40}), 3)
        b == IF a = 0 THEN 0
             ELSE DigitRun(t, OptChar(t, OptChar(t, a, {41}), PHONE_SEP), 3)
    IN  IF b = 0 THEN 0 ELSE DigitRun(t, OptChar(t, b, PHONE_SEP), 4)

\* re.search(pattern, text): the leftmost match, EMPTY when there is none,
\* which is the `phone` of line 59
SearchPhone(t) ==
    LET starts == {i \in 1..Len(t) : MatchPhoneAt(t, i) # 0}
    IN  IF starts = {} THEN EMPTY
        ELSE SubSeq(t, Min(starts), MatchPhoneAt(t, Min(starts)) - 1)

-----------------------------------------------------------------------------
(* parse_entries.  A document is the sequence of its <a> elements in       *)
(* document order; each carries its href and its ancestors, nearest first, *)
(* an ancestor being its tag and the text nodes below it.                  *)

\* "mailto:"
MAILTO ==
    <<109, 97, 105, 108, 116, 111, 58>>

\* the separator given to get_text
\* " \n"
SEPARATOR ==
    <<32, 10>>

BLOCK_TAGS ==
    {"div", "li", "tr"}

\* soup.select('a[href^="mailto:"]')
select_mailto(doc) ==
    SelectSeq(doc, LAMBDA a : StartsWith(a.href, MAILTO))

\* mailto.get("href", "").replace("mailto:", "").strip()
email_of(a) ==
    Strip(Replace(a.href, MAILTO, EMPTY))

\* mailto.find_parent(["div", "li", "tr"]) or mailto.parent
find_block(a) ==
    LET hit == {i \in 1..Len(a.ancestors) : a.ancestors[i].tag \in BLOCK_TAGS}
    IN  IF hit = {} THEN a.ancestors[1] ELSE a.ancestors[Min(hit)]

RECURSIVE stripped_strings(_)
stripped_strings(nodes) ==
    IF nodes = <<>> THEN <<>>
    ELSE LET s == Strip(Head(nodes))
         IN  (IF s = EMPTY THEN <<>> ELSE <<s>>) \o stripped_strings(Tail(nodes))

\* block.get_text(" \n", strip=True)
get_text(block) ==
    Join(stripped_strings(block.strings), SEPARATOR)

\* the filter of line 60, with the phone test left out
keep_line_email_only(t, email, phone) ==
    t # EMPTY /\ ~Contains(t, email)

\* the filter of line 60: t and email not in t and phone not in t
keep_line(t, email, phone) ==
    t # EMPTY /\ ~Contains(t, email) /\ ~Contains(t, phone)

\* one pass of the loop body, lines 53-68, for an anchor with an address
parse_anchor(a) ==
    LET email == email_of(a)
        text  == get_text(find_block(a))
        phone == SearchPhone(text)
        lines == SelectSeq(SplitLines(text), LAMBDA t : keep_line(t, email, phone))
    IN  [Name      |-> IF Len(lines) > 0 THEN lines[1] ELSE EMPTY,
         Brokerage |-> IF Len(lines) > 1 THEN lines[2] ELSE EMPTY,
         Email     |-> email,
         Phone     |-> phone]

parse_entries(doc) ==
    LET found == SelectSeq(select_mailto(doc), LAMBDA a : email_of(a) # EMPTY)
    IN  [i \in 1..Len(found) |-> parse_anchor(found[i])]

-----------------------------------------------------------------------------
(* deduplicate.  A row is a dict: a function whose domain need not hold    *)
(* "Email".                                                                *)

\* the key of line 76 without lower()
dedup_key_exact(r) ==
    IF "Email" \in DOMAIN r THEN r["Email"] ELSE EMPTY

\* r.get("Email", "").lower()
dedup_key(r) ==
    Lower(IF "Email" \in DOMAIN r THEN r["Email"] ELSE EMPTY)

\* line 79 putting the row in front
unique_prepend(unique, r) ==
    <<r>> \o unique

\* unique.append(r)
unique_append(unique, r) ==
    Append(unique, r)

\* the loop of lines 75-79 over the rows still to visit
RECURSIVE dedup_loop(_, _, _)
dedup_loop(todo, seen, unique) ==
    IF todo = <<>> THEN unique
    ELSE LET r   == Head(todo)
             key == dedup_key(r)
         IN  IF key # EMPTY /\ key \notin seen
             THEN dedup_loop(Tail(todo), seen \cup {key}, unique_append(unique, r))
             ELSE dedup_loop(Tail(todo), seen, unique)

deduplicate(rs) ==
    dedup_loop(rs, {}, <<>>)

-----------------------------------------------------------------------------
(* append_to_sheet.  creds is the state of the environment: the variable   *)
(* GOOGLE_CREDS_JSON is "unset", "empty", names a "missing" file, or is    *)
(* "ok".  `fail` is the call that raises, "none" when none does.           *)

CredStates ==
    {"unset", "empty", "missing", "ok"}

\* the credential load and the gspread calls of lines 89-94
SheetFailures ==
    {"none", "from_json_keyfile_name", "authorize", "open_by_key", "worksheet",
     "append_rows"}

\* the calls that reach the spreadsheet service
ServiceCalls ==
    {"authorize", "open_by_key", "worksheet", "append_rows"}

\* line 85 testing the variable only: not creds_path
creds_missing_path_only(c) ==
    c \in {"unset", "empty"}

\* not creds_path or not Path(creds_path).exists()
creds_missing(c) ==
    c \in {"unset", "empty", "missing"}

\* line 92 with two columns exchanged
row_data_swapped(rs) ==
    [i \in 1..Len(rs) |->
        <<rs[i]["Name"], rs[i]["Email"], rs[i]["Brokerage"], rs[i]["Phone"]>>]

\* [[r["Name"], r["Brokerage"], r["Email"], r["Phone"]] for r in rows]
row_data(rs) ==
    [i \in 1..Len(rs) |->
        <<rs[i]["Name"], rs[i]["Brokerage"], rs[i]["Email"], rs[i]["Phone"]>>]

\* lines 89-94 without the guard `if data:`
sheet_steps_unguarded(data) ==
    <<"from_json_keyfile_name", "authorize", "open_by_key", "worksheet",
      "append_rows">>

\* the calls of lines 89-94 in order; append_rows only `if data:`
sheet_steps(data) ==
    <<"from_json_keyfile_name", "authorize", "open_by_key", "worksheet">>
        \o (IF data # <<>> THEN <<"append_rows">> ELSE <<>>)

\* the outcome of append_to_sheet(rows): the exception, the calls issued
\* (the raising one included) and the batches handed to append_rows
append_to_sheet(rs, c, fail) ==
    IF creds_missing(c)
    THEN [err |-> "ConfigError", calls |-> <<>>, batches |-> <<>>]
    ELSE LET data   == row_data(rs)
             steps  == sheet_steps(data)
             \* reading a key file that is not there raises
             raiser == IF c # "ok" THEN "from_json_keyfile_name" ELSE fail
             at     == {k \in 1..Len(steps) : steps[k] = raiser}
             issued == IF at = {} THEN steps ELSE SubSeq(steps, 1, Min(at))
         IN  [err     |-> IF at = {} THEN "none" ELSE "UploadError",
              calls   |-> issued,
              batches |-> IF \E k \in 1..Len(issued) : issued[k] = "append_rows"
                          THEN <<data>> ELSE <<>>]

-----------------------------------------------------------------------------
(* The fetchers. *)

HTTP_OK ==
    200

Statuses ==
    {200, 404, 500}

\* line 32 accepting every status
status_ok_any(status) ==
    TRUE

\* resp.status_code != 200 raises
status_ok(status) ==
    status = HTTP_OK

\* fetch_with_requests: one GET; raises on a status other than 200
fetch_with_requests(status, body) ==
    [err |-> ~status_ok(status), text |-> body]

\* the call of fetch_with_playwright that raises, "none" when none does
BrowserFailures ==
    {"none", "sync_playwright", "launch", "new_page", "goto", "content"}

\* the browser when control leaves the body of the with block: launched by
\* line 40, closed by browser.close() of line 45, which is reached only
\* when lines 41-44 have not raised
browser_at_exit(fail) ==
    CASE fail \in {"sync_playwright", "launch"} -> "none"
      [] fail \in {"new_page", "goto", "content"} -> "open"
      [] OTHER -> "closed"

\* a Playwright started without the with block of line 39: nothing is
\* stopped on the way out and a browser still open stays open
scope_exit_unscoped(b) ==
    b

\* leaving `with sync_playwright() as p:`, by return or by exception:
\* the context manager stops the Playwright driver, which shuts down every
\* browser it launched before the exit returns
scope_exit(b) ==
    IF b = "open" THEN "closed" ELSE b

\* fetch_with_playwright: the with block is entered unless sync_playwright()
\* itself raises, and is left on every path out of its body
fetch_with_playwright(fail, doc) ==
    [err        |-> fail # "none",
     content    |-> doc,
     browser    |-> IF fail = "sync_playwright" THEN "none"
                    ELSE scope_exit(browser_at_exit(fail)),
     playwright |-> IF fail = "sync_playwright" THEN "none" ELSE "stopped"]

-----------------------------------------------------------------------------
(* Inputs: character strings, documents and rows. *)

\* "jane@ex.com"
EmailJane ==
    <<106, 97, 110, 101, 64, 101, 120, 46, 99, 111, 109>>

\* "JANE@EX.COM"
EmailJaneUpper ==
    <<74, 65, 78, 69, 64, 69, 88, 46, 67, 79, 77>>

\* "bob@ex.com"
EmailBob ==
    <<98, 111, 98, 64, 101, 120, 46, 99, 111, 109>>

\* "mailto:jane@ex.com"
HrefJane ==
    <<109, 97, 105, 108, 116, 111, 58, 106, 97, 110, 101, 64, 101, 120, 46, 99,
      111, 109>>

\* "mailto:JANE@EX.COM"
HrefJaneUpper ==
    <<109, 97, 105, 108, 116, 111, 58, 74, 65, 78, 69, 64, 69, 88, 46, 67, 79,
      77>>

\* "mailto: Jane@ex.com "
HrefJanePadded ==
    <<109, 97, 105, 108, 116, 111, 58, 32, 74, 97, 110, 101, 64, 101, 120, 46,
      99, 111, 109, 32>>

\* "mailto:bob@ex.com"
HrefBob ==
    <<109, 97, 105, 108, 116, 111, 58, 98, 111, 98, 64, 101, 120, 46, 99, 111,
      109>>

\* "mailto:"
HrefEmpty ==
    <<109, 97, 105, 108, 116, 111, 58>>

\* "http://ex.com"
HrefWeb ==
    <<104, 116, 116, 112, 58, 47, 47, 101, 120, 46, 99, 111, 109>>

\* "Jane Doe"
TxtName ==
    <<74, 97, 110, 101, 32, 68, 111, 101>>

\* "J. Doe"
TxtNameAlt ==
    <<74, 46, 32, 68, 111, 101>>

\* "ABC Realty"
TxtBrokerage ==
    <<65, 66, 67, 32, 82, 101, 97, 108, 116, 121>>

\* "XYZ Homes"
TxtBrokerageAlt ==
    <<88, 89, 90, 32, 72, 111, 109, 101, 115>>

\* "705-555-1234"
TxtPhone ==
    <<55, 48, 53, 45, 53, 53, 53, 45, 49, 50, 51, 52>>

\* "(705) 555-1234"
TxtPhoneParen ==
    <<40, 55, 48, 53, 41, 32, 53, 53, 53, 45, 49, 50, 51, 52>>

\* "705.555.9876"
TxtPhoneDots ==
    <<55, 48, 53, 46, 53, 53, 53, 46, 57, 56, 55, 54>>

\* " Jane Doe ABC Realty (705) 555-1234"
TxtTrailingA ==
    <<32, 74, 97, 110, 101, 32, 68, 111, 101, 32, 65, 66, 67, 32, 82, 101, 97,
      108, 116, 121, 32, 40, 55, 48, 53, 41, 32, 53, 53, 53, 45, 49, 50, 51,
      52>>

\* " \n "
TxtBlank ==
    <<32, 10, 32>>

\* "Jane Doe\nABC Realty"
TxtTwoLines ==
    <<74, 97, 110, 101, 32, 68, 111, 101, 10, 65, 66, 67, 32, 82, 101, 97, 108,
      116, 121>>

\* "Bob Roy"
TxtBob ==
    <<66, 111, 98, 32, 82, 111, 121>>

\* "JOS\u00c9@EX.COM"
EmailJoseUpper ==
    <<74, 79, 83, 201, 64, 69, 88, 46, 67, 79, 77>>

\* "jos\u00e9@ex.com"
EmailJose ==
    <<106, 111, 115, 233, 64, 101, 120, 46, 99, 111, 109>>

\* "mailto:\u00a0"
HrefNbsp ==
    <<109, 97, 105, 108, 116, 111, 58, 160>>

\* "\u00a0"
TxtNbsp ==
    <<160>>

\* "705\f555\f1234"
TxtPhoneFormFeed ==
    <<55, 48, 53, 12, 53, 53, 53, 12, 49, 50, 51, 52>>

\* "705\u00a0555\u00a01234"
TxtPhoneNbsp ==
    <<55, 48, 53, 160, 53, 53, 53, 160, 49, 50, 51, 52>>

\* "Jose"
TxtJose ==
    <<74, 111, 115, 101>>

Anchor(href, ancestors) ==
    [href |-> href, ancestors |-> ancestors]

Node(tag, strings) ==
    [tag |-> tag, strings |-> strings]

\* the markup of scenario A:
\* <li><a href="mailto:jane@ex.com">jane@ex.com</a> Jane Doe ABC Realty (705) 555-1234</li>
DocScenarioA ==
    <<Anchor(HrefJane, <<Node("li", <<EmailJane, TxtTrailingA>>)>>)>>

\* two list items with the same address in different letter case
DocScenarioB ==
    <<Anchor(HrefJane,
             <<Node("li", <<EmailJane, TxtName, TxtBrokerage, TxtPhone>>)>>),
      Anchor(HrefJaneUpper,
             <<Node("li", <<EmailJaneUpper, TxtNameAlt, TxtBrokerageAlt, TxtPhoneDots>>)>>)>>

\* a table with two agents, each anchor inside a cell of its row
DocTable ==
    <<Anchor(HrefJane,
             <<Node("td", <<EmailJane>>),
               Node("tr", <<TxtName, TxtBrokerage, TxtPhoneParen, EmailJane>>)>>),
      Anchor(HrefBob,
             <<Node("td", <<EmailBob>>),
               Node("tr", <<TxtBob, TxtBrokerageAlt, EmailBob>>)>>)>>

\* a page with no mailto link: the list is filled in by script
DocNoMailto ==
    <<Anchor(HrefWeb, <<Node("p", <<TxtName>>)>>)>>

\* a page whose only mailto link has no address
DocEmptyAddress ==
    <<Anchor(HrefEmpty, <<Node("div", <<TxtName, TxtPhone>>)>>)>>

\* an agent whose name and address have a non-ASCII letter and whose phone
\* is written with no-break spaces, listed twice
DocJose ==
    <<Anchor(MAILTO \o EmailJoseUpper,
             <<Node("li", <<EmailJoseUpper, TxtNbsp, TxtJose, TxtPhoneNbsp>>)>>),
      Anchor(MAILTO \o EmailJose,
             <<Node("li", <<EmailJose, TxtJose, TxtBrokerage>>)>>)>>

\* the documents a fetch of main may return
MainDocs ==
    {<<>>, DocScenarioA, DocScenarioB, DocTable, DocNoMailto, DocEmptyAddress,
     DocJose}

TextPool ==
    {EmailJane, TxtName, TxtBrokerage, TxtPhone, TxtTrailingA, TxtBlank,
     TxtTwoLines, TxtNbsp, TxtPhoneFormFeed}

HrefPool ==
    {HrefJane, HrefJanePadded, HrefEmpty, HrefWeb, HrefNbsp}

\* the lists of text nodes of a container
NodeLists ==
    UNION {[1..k -> TextPool] : k \in 0..MaxNodes}

\* the anchor directly in a list item, directly in a paragraph, or in a
\* span inside a table row
Ancestries(b) ==
    {<<Node("li", b)>>, <<Node("p", b)>>,
     <<Node("span", IF b = <<>> THEN <<>> ELSE <<b[1]>>), Node("tr", b)>>}

\* the documents drawn for parse_entries alone
ParseDocs ==
    MainDocs \cup
    {<<Anchor(h, anc)>> : h \in HrefPool, anc \in UNION {Ancestries(b) : b \in NodeLists}}

Entry(name, brokerage, email, phone) ==
    [Name |-> name, Brokerage |-> brokerage, Email |-> email, Phone |-> phone]

RowJane ==
    Entry(TxtName, TxtBrokerage, EmailJane, TxtPhone)

RowJaneUpper ==
    Entry(TxtNameAlt, TxtBrokerageAlt, EmailJaneUpper, EMPTY)

RowBob ==
    Entry(TxtBob, EMPTY, EmailBob, TxtPhoneDots)

RowNoEmail ==
    Entry(TxtName, TxtBrokerage, EMPTY, TxtPhone)

RowJoseUpper ==
    Entry(TxtJose, EMPTY, EmailJoseUpper, EMPTY)

RowJose ==
    Entry(TxtJose, TxtBrokerage, EmailJose, TxtPhoneNbsp)

\* a dict without the key "Email"
RowNoKey ==
    [Name |-> TxtNameAlt, Brokerage |-> EMPTY, Phone |-> TxtPhone]

\* the row lists drawn for deduplicate alone
DedupInputs ==
    UNION {[1..k -> {RowJane, RowJaneUpper, RowBob, RowNoEmail, RowNoKey, RowJoseUpper,
                      RowJose}] : k \in 0..MaxRows}

\* the row lists drawn for append_to_sheet alone
SheetInputs ==
    UNION {[1..k -> {RowJane, RowJaneUpper, RowBob}] : k \in 0..MaxRows}

-----------------------------------------------------------------------------
(* main. *)

Msg(text, args) ==
    [msg |-> text, args |-> args]

\* line 108 taking the fallback for at most one entry
needs_fallback_short(es) ==
    Len(es) <= 1

\* `if not entries:` of line 108
needs_fallback(es) ==
    Len(es) = 0

Init ==
    /\ pc = "start"
    /\ creds \in CredStates
    /\ resp = [status |-> 0, text |-> <<>>]
    /\ html = <<>>
    /\ entries = <<>>
    /\ rows = <<>>
    /\ calls = <<>>
    /\ browser = "none"
    /\ playwright = "none"
    /\ sheetCalls = <<>>
    /\ appended = <<>>
    /\ log = <<>>
    /\ err = "none"

\* load_dotenv() of line 98: a variable the .env file defines is set only
\* when the process environment does not have it (override is off);
\* `dotenv` is what the file says of GOOGLE_CREDS_JSON, "unset" when
\* there is no file or the file does not define it
load_dotenv(env, dotenv) ==
    IF env = "unset" THEN dotenv ELSE env

\* lines 98-104: load_dotenv, arguments, logging set up, "Starting scrape"
Start ==
    /\ pc = "start"
    /\ pc' = "fetch_static"
    /\ \E dotenv \in CredStates : creds' = load_dotenv(creds, dotenv)
    /\ log' = Append(log, Msg("Starting scrape", <<>>))
    /\ UNCHANGED <<resp, html, entries, rows, calls, browser, playwright,
                   sheetCalls, appended, err>>

\* line 106: html = fetch_with_requests(URL)
FetchStatic ==
    /\ pc = "fetch_static"
    /\ \E status \in Statuses, body \in MainDocs :
          LET r == fetch_with_requests(status, body)
          IN  /\ resp' = [status |-> status, text |-> body]
              /\ calls' = Append(calls, "fetch_with_requests")
              /\ IF r.err
                 THEN pc' = "failed" /\ err' = "FetchError" /\ html' = html
                 ELSE pc' = "parse_static" /\ err' = err /\ html' = r.text
    /\ UNCHANGED <<creds, entries, rows, browser, playwright, sheetCalls,
                   appended, log>>

\* lines 107-109: entries = parse_entries(html); if not entries: log
ParseStatic ==
    /\ pc = "parse_static"
    /\ entries' = parse_entries(html)
    /\ calls' = Append(calls, "parse_entries")
    /\ IF needs_fallback(entries')
       THEN /\ pc' = "fetch_rendered"
            /\ log' = Append(log, Msg("Switching to Playwright scraping", <<>>))
       ELSE /\ pc' = "dedupe"
            /\ log' = log
    /\ UNCHANGED <<creds, resp, html, rows, browser, playwright, sheetCalls,
                   appended, err>>

\* line 110: html = fetch_with_playwright(URL, headless=args.headless)
FetchRendered ==
    /\ pc = "fetch_rendered"
    /\ \E fail \in BrowserFailures, doc \in MainDocs :
          LET r == fetch_with_playwright(fail, doc)
          IN  /\ browser' = r.browser
              /\ playwright' = r.playwright
              /\ calls' = Append(calls, "fetch_with_playwright")
              /\ IF r.err
                 THEN pc' = "failed" /\ err' = "BrowserError" /\ html' = html
                 ELSE pc' = "parse_rendered" /\ err' = err /\ html' = r.content
    /\ UNCHANGED <<creds, resp, entries, rows, sheetCalls, appended, log>>

\* line 111: entries = parse_entries(html)
ParseRendered ==
    /\ pc = "parse_rendered"
    /\ entries' = parse_entries(html)
    /\ calls' = Append(calls, "parse_entries")
    /\ pc' = "dedupe"
    /\ UNCHANGED <<creds, resp, html, rows, browser, playwright, sheetCalls,
                   appended, log, err>>

\* lines 113-114: rows = deduplicate(entries); "Parsed %d unique rows"
Dedupe ==
    /\ pc = "dedupe"
    /\ rows' = deduplicate(entries)
    /\ calls' = Append(calls, "deduplicate")
    /\ log' = Append(log, Msg("Parsed %d unique rows", <<Len(rows')>>))
    /\ pc' = "upload"
    /\ UNCHANGED <<creds, resp, html, entries, browser, playwright, sheetCalls,
                   appended, err>>

\* line 115: append_to_sheet(rows)
Upload ==
    /\ pc = "upload"
    /\ \E fail \in SheetFailures :
          LET r == append_to_sheet(rows, creds, fail)
          IN  /\ sheetCalls' = sheetCalls \o r.calls
              /\ appended' = appended \o r.batches
              /\ calls' = Append(calls, "append_to_sheet")
              /\ IF r.err = "none"
                 THEN pc' = "complete" /\ err' = err
                 ELSE pc' = "failed" /\ err' = r.err
    /\ UNCHANGED <<creds, resp, html, entries, rows, browser, playwright, log>>

\* line 116: "Completed upload", and main returns
Complete ==
    /\ pc = "complete"
    /\ log' = Append(log, Msg("Completed upload", <<>>))
    /\ pc' = "done"
    /\ UNCHANGED <<creds, resp, html, entries, rows, calls, browser, playwright,
                   sheetCalls, appended, err>>

Next ==
    \/ Start
    \/ FetchStatic
    \/ ParseStatic
    \/ FetchRendered
    \/ ParseRendered
    \/ Dedupe
    \/ Upload
    \/ Complete

\* one run of main()
Spec ==
    Init /\ [][Next]_vars

-----------------------------------------------------------------------------
(* Each function on its own: the inputs are drawn in the initial state and *)
(* the one step is the call, made by the statement of main that makes it.  *)

\* parse_entries(html) for every document of ParseDocs
InitParse ==
    /\ pc = "parse_static"
    /\ creds = "ok"
    /\ resp \in {[status |-> HTTP_OK, text |-> d] : d \in ParseDocs}
    /\ html = resp.text
    /\ entries = <<>>
    /\ rows = <<>>
    /\ calls = <<"fetch_with_requests">>
    /\ browser = "none"
    /\ playwright = "none"
    /\ sheetCalls = <<>>
    /\ appended = <<>>
    /\ log = <<>>
    /\ err = "none"

NextParse ==
    ParseStatic

SpecParse ==
    InitParse /\ [][NextParse]_vars

\* deduplicate(entries) for every row list of DedupInputs
InitDedup ==
    /\ pc = "dedupe"
    /\ creds = "ok"
    /\ resp = [status |-> 0, text |-> <<>>]
    /\ html = <<>>
    /\ entries \in DedupInputs
    /\ rows = <<>>
    /\ calls = <<>>
    /\ browser = "none"
    /\ playwright = "none"
    /\ sheetCalls = <<>>
    /\ appended = <<>>
    /\ log = <<>>
    /\ err = "none"

NextDedup ==
    Dedupe

SpecDedup ==
    InitDedup /\ [][NextDedup]_vars

\* append_to_sheet(rows) for every row list of SheetInputs, in every state
\* of the credential configuration
InitSheet ==
    /\ pc = "upload"
    /\ creds \in CredStates
    /\ resp = [status |-> 0, text |-> <<>>]
    /\ html = <<>>
    /\ entries = <<>>
    /\ rows \in SheetInputs
    /\ calls = <<>>
    /\ browser = "none"
    /\ playwright = "none"
    /\ sheetCalls = <<>>
    /\ appended = <<>>
    /\ log = <<>>
    /\ err = "none"

NextSheet ==
    Upload

SpecSheet ==
    InitSheet /\ [][NextSheet]_vars

-----------------------------------------------------------------------------
(* Properties.  They are stated with definitions of their own, so that     *)
(* they do not follow the functions they are about.                        *)

Has(seq, x) ==
    \E k \in 1..Len(seq) : seq[k] = x

Count(seq, x) ==
    Cardinality({k \in 1..Len(seq) : seq[k] = x})

\* the lowercased address of a row, empty when the row has none
EmailKey(r) ==
    IF "Email" \in DOMAIN r THEN Lower(r["Email"]) ELSE EMPTY

\* the positions of `input` holding the first row of each non-empty address
FirstPositions(input) ==
    {i \in 1..Len(input) :
        /\ EmailKey(input[i]) # EMPTY
        /\ \A j \in 1..(i - 1) : EmailKey(input[j]) # EmailKey(input[i])}

\* output is input restricted to FirstPositions(input), in input order
IsFirstOccurrences(output, input) ==
    \E f \in [1..Len(output) -> 1..Len(input)] :
        /\ \A k \in 1..Len(output) : output[k] = input[f[k]]
        /\ \A k \in 1..(Len(output) - 1) : f[k] < f[k + 1]
        /\ {f[k] : k \in 1..Len(output)} = FirstPositions(input)

StaticFetched ==
    Has(calls, "fetch_with_requests") /\ err # "FetchError"

RenderedCalls ==
    Count(calls, "fetch_with_playwright")

Deduplicated ==
    Has(calls, "deduplicate")

Uploaded ==
    Has(calls, "append_to_sheet")

\* parse_entries has returned (SpecParse starts before the call)
Parsed ==
    Has(calls, "parse_entries")

\* C1: when the static fetch succeeds, fetch_with_playwright is called
\* exactly once if the static markup parses to no entry (once main is past
\* the fallback statement), and never if it parses to one entry or more,
\* in which case deduplicate is given the statically parsed entries.
C1_FallbackTrigger ==
    StaticFetched =>
        LET static == parse_entries(resp.text)
        IN  /\ RenderedCalls <= 1
            /\ static = <<>> =>
                   (RenderedCalls = 1 <=> pc \notin {"parse_static", "fetch_rendered"})
            /\ static # <<>> =>
                   /\ RenderedCalls = 0
                   /\ Deduplicated => entries = static

C1_Witness ==
    /\ StaticFetched
    /\ parse_entries(resp.text) = <<>>
    /\ RenderedCalls = 1
    /\ Deduplicated
    /\ entries # <<>>

\* C2: deduplicate returns one row per distinct non-empty lowercased Email
\* of its input, the first input row with that address, in input order;
\* rows with an empty or missing Email are dropped.
C2_FirstOccurrencePerEmail ==
    Deduplicated => IsFirstOccurrences(rows, entries)

C2_Witness ==
    /\ Deduplicated
    /\ Len(rows) = 1
    /\ \E i, j \in 1..Len(entries) :
          /\ i < j
          /\ entries[i] # entries[j]
          /\ rows[1] = entries[i]
          /\ EmailKey(entries[i]) = EmailKey(entries[j])
    /\ \E k \in 1..Len(entries) : EmailKey(entries[k]) = EMPTY

\* C3 as claimed: with no rows and a valid credential file, append_to_sheet
\* makes no call to the spreadsheet service.
C3_NoServiceCallWhenEmpty ==
    (Uploaded /\ rows = <<>> /\ creds = "ok") =>
        \A k \in 1..Len(sheetCalls) : sheetCalls[k] \notin ServiceCalls

\* C3 as amended: with no rows and a valid credential file, append_to_sheet
\* appends nothing; it still loads the credentials, authorizes and opens
\* the spreadsheet and the tab, in that order, as far as no call raises.
C3_NoAppendWhenEmpty ==
    (Uploaded /\ rows = <<>> /\ creds = "ok") =>
        /\ appended = <<>>
        /\ ~Has(sheetCalls, "append_rows")
        /\ err = "none" =>
               sheetCalls = <<"from_json_keyfile_name", "authorize", "open_by_key",
                              "worksheet">>

C3_Witness ==
    /\ Uploaded
    /\ rows = <<>>
    /\ creds = "ok"
    /\ err = "none"
    /\ Has(sheetCalls, "authorize")

\* C4: with the credential path unset, empty or naming no file,
\* append_to_sheet raises the configuration error before any credential or
\* spreadsheet call, whatever the rows, the empty list included.
C4_ConfigErrorBeforeAnyCall ==
    (Uploaded /\ creds # "ok") =>
        /\ err = "ConfigError"
        /\ pc = "failed"
        /\ sheetCalls = <<>>
        /\ appended = <<>>

C4_Witness ==
    /\ Uploaded
    /\ creds = "missing"
    /\ rows = <<>>
    /\ err = "ConfigError"

\* C5: once fetch_with_playwright has returned or raised, no browser it
\* launched is open: a browser exists only inside a Playwright scope that
\* has been left, a normal return leaves a closed browser, and so does
\* every failure after the launch.
C5_BrowserReleasedOnEveryExit ==
    /\ browser # "open"
    /\ browser = "closed" => playwright = "stopped"
    /\ Has(calls, "fetch_with_playwright") =>
           /\ err # "BrowserError" => browser = "closed"
           /\ playwright = "stopped" => browser = "closed" \/ err = "BrowserError"

\* a rendered fetch that failed after the launch, its browser released
C5_Witness ==
    /\ Has(calls, "fetch_with_playwright")
    /\ err = "BrowserError"
    /\ pc = "failed"
    /\ playwright = "stopped"
    /\ browser = "closed"

\* C6: a failing stage ends the run: after a static fetch with a status
\* other than 200 nothing else is called; after a failed rendered fetch
\* there is no dedupe and no upload; after a failed upload "Completed
\* upload" is never logged; and a failed run takes no further step.
C6_FailureAbortsRun ==
    /\ (Has(calls, "fetch_with_requests") /\ resp.status # HTTP_OK) =>
           /\ pc = "failed"
           /\ calls = <<"fetch_with_requests">>
           /\ browser = "none" /\ playwright = "none"
           /\ rows = <<>> /\ sheetCalls = <<>> /\ appended = <<>>
    /\ err = "BrowserError" =>
           /\ pc = "failed"
           /\ ~Deduplicated /\ ~Uploaded
           /\ sheetCalls = <<>> /\ appended = <<>>
    /\ err \in {"ConfigError", "UploadError"} =>
           /\ pc = "failed"
           /\ ~Has(log, Msg("Completed upload", <<>>))
    /\ pc = "failed" => (err # "none" /\ ~ENABLED Next)

C6_Witness ==
    /\ Has(calls, "fetch_with_requests")
    /\ resp.status = 404
    /\ resp.text = DocNoMailto
    /\ pc = "failed"

\* the container text of scenario A: anchor text, " \n", trailing text
TextScenarioA ==
    EmailJane \o SEPARATOR \o Strip(TxtTrailingA)

\* C7 as claimed: scenario A parses to one entry with Name "Jane Doe" and
\* Brokerage "ABC Realty".
C7_ScenarioAAsClaimed ==
    (Parsed /\ resp.text = DocScenarioA) =>
        entries = <<Entry(TxtName, TxtBrokerage, EmailJane, TxtPhoneParen)>>

\* C7 as amended: scenario A parses to one entry with Email "jane@ex.com",
\* Phone "(705) 555-1234" and empty Name and Brokerage: the container text
\* has two lines, one holding the address and one holding the phone.
C7_ScenarioAParsed ==
    (Parsed /\ resp.text = DocScenarioA) =>
        /\ entries = <<Entry(EMPTY, EMPTY, EmailJane, TxtPhoneParen)>>
        /\ Len(SplitLines(TextScenarioA)) = 2
        /\ Contains(SplitLines(TextScenarioA)[1], EmailJane)
        /\ Contains(SplitLines(TextScenarioA)[2], TxtPhoneParen)

C7_Witness ==
    /\ Parsed
    /\ resp.text = DocScenarioA
    /\ Len(entries) = 1
    /\ entries[1].Phone = TxtPhoneParen

\* the anchors parse_entries makes an entry of
AddressAnchors(doc) ==
    SelectSeq(doc, LAMBDA a : StartsWith(a.href, MAILTO)
                                /\ Strip(Replace(a.href, MAILTO, EMPTY)) # EMPTY)

\* the non-empty lines left when the lines holding the address or the
\* matched phone are taken out; no phone matched takes out no line
RemainingLines(a, email, phone) ==
    SelectSeq(SplitLines(get_text(find_block(a))),
              LAMBDA t : /\ t # EMPTY
                         /\ ~Contains(t, email)
                         /\ ~(phone # EMPTY /\ Contains(t, phone)))

\* C9 as claimed: Name and Brokerage are the first and second non-empty
\* line of the container text that holds neither the address nor the
\* matched phone, whether or not a phone was matched.
C9_NameAndBrokerageFromRemainingLines ==
    Parsed =>
        LET found == AddressAnchors(resp.text)
        IN  /\ Len(entries) = Len(found)
            /\ \A i \in 1..Len(found) :
                  LET left == RemainingLines(found[i], entries[i].Email, entries[i].Phone)
                  IN  /\ entries[i].Name = IF Len(left) > 0 THEN left[1] ELSE EMPTY
                      /\ entries[i].Brokerage = IF Len(left) > 1 THEN left[2] ELSE EMPTY

\* C10: main appends at most once and only after deduplicate; the batch is
\* the deduplicated entries in order as [Name, Brokerage, Email, Phone],
\* every Email non-empty and no two equal ignoring case; "Completed
\* upload" is logged only after append_to_sheet returned without error.
C10_AppendCarriesDeduplicatedRows ==
    /\ Len(appended) <= 1
    /\ Count(sheetCalls, "append_rows") <= 1
    /\ appended # <<>> =>
           LET data == appended[1]
           IN  /\ \E d, u \in 1..Len(calls) :
                     d < u /\ calls[d] = "deduplicate" /\ calls[u] = "append_to_sheet"
               /\ IsFirstOccurrences(rows, entries)
               /\ Len(data) = Len(rows)
               /\ \A i \in 1..Len(data) :
                     data[i] = <<rows[i].Name, rows[i].Brokerage, rows[i].Email,
                                 rows[i].Phone>>
               /\ \A i \in 1..Len(data) : data[i][3] # EMPTY
               /\ \A i, j \in 1..Len(data) :
                     i # j => Lower(data[i][3]) # Lower(data[j][3])
    /\ (pc = "done" \/ Has(log, Msg("Completed upload", <<>>))) =>
           /\ err = "none"
           /\ calls[Len(calls)] = "append_to_sheet"
           /\ Count(calls, "append_to_sheet") = 1

C10_Witness ==
    /\ pc = "done"
    /\ Len(appended) = 1
    /\ Len(appended[1]) = 1
    /\ Len(entries) = 2

\* C8: deduplicate applied to its own result returns it unchanged, and its
\* result is never longer than its input.
C8_Idempotent ==
    Deduplicated =>
        /\ deduplicate(rows) = rows
        /\ Len(rows) <= Len(entries)

C8_Witness ==
    /\ Deduplicated
    /\ Len(rows) = 2
    /\ Len(entries) = 3

====
